---- MODULE Spec2Model ----
(***************************************************************************)
(* driftq-rag-index-demo: the API (src/api/app/main.py), the worker's two  *)
(* consume loops and their handlers (src/api/app/worker.py), the run and   *)
(* index stores (src/api/app/storage.py), the pipeline steps               *)
(* (src/api/app/pipeline.py) and the two backends as seen through their    *)
(* clients (qdrant_http.py, driftq_client.py).                             *)
(*                                                                         *)
(* The worker is one asyncio process running the build loop and the        *)
(* control loop: the two interleave at await points only.  The API is a    *)
(* process of its own; the stores are files shared by both.                *)
(***************************************************************************)
EXTENDS Integers, Sequences, FiniteSets, TLC

\* ------------------------------------------------------------------ bounds
MaxRuns == 2        \* build requests made (run ids 1..MaxRuns)
MaxEvents == 4      \* requests and faults in one behaviour: a build, a rollback, a
                    \* failing backend request and a worker crash count 1, a replay 2
MaxErrors == 2      \* a run's messages are delivered while len(errors) < MaxErrors
NumChunks == 2      \* chunks the dataset under /data/docs yields
B == 1              \* upsert batch size (worker.py:141 uses 128; scaled with NumChunks)
MaxSteps == 2       \* largest `steps` a rollback request carries

\* ------------------------------------------------------------- vocabulary
Indexes == {"demo"}
RunIds == 1..MaxRuns
VersionIds == 1..(MaxRuns + 1)
ChunkIds == 1..NumChunks
None == 0                     \* Python's None for version-valued fields
NoStep == "none"              \* from_step absent (None)
NoMsg == [type |-> "nomsg"]
NoFile == <<>>                \* a path that does not exist
File(content) == <<content>>
NoCall == [outcome |-> "none"]
NoAlias == <<>>

order == <<"discover", "chunk", "embed", "upsert", "promote", "smoketest">>
StepNames == {order[i] : i \in 1..Len(order)}
FailModes == {"never", "once", "always"}
\* fail_step is free text; only "embed" is ever consulted (worker.py:112)
FailSteps == {"none", "embed"}
Faults == {<<"none", "never">>, <<"embed", "once">>, <<"embed", "always">>}

BUILD_TOPIC == "demo.rag.build"
CONTROL_TOPIC == "demo.rag.control"
Topics == {BUILD_TOPIC, CONTROL_TOPIC}

VARIABLES
  state,      \* run_id -> the run's state.json (status UNKNOWN: no file)
  files,      \* run_id -> docs.json / chunks.json / embeddings.json of the run dir
  markers,    \* the fail_<fail_step>.marker files: <<run_id, fail_step>>
  hist,       \* index -> history.json
  colls,      \* Qdrant: collection name -> NoFile or File(set of point ids)
  alias,      \* Qdrant: index -> the collection demo_<index>_active targets
  buildQ,     \* build topic: messages not acked and not leased
  controlQ,   \* control topic: messages not acked and not leased
  bpc,        \* build loop: position in consume_loop / handle_build
  bmsg,       \* build loop: the leased message
  bi,         \* build loop: offset i of the upsert batch loop
  cpc,        \* control loop: position in consume_loop / handle_rollback
  cmsg,       \* control loop: the leased message
  chist,      \* control loop: handle_rollback's local hist (worker.py:215)
  ctarget,    \* control loop: handle_rollback's local to_version once resolved
  result,     \* control loop: what the last handle_rollback call produced
  used,       \* requests made and faults met so far, counted against MaxEvents
  phase,      \* topic -> where its consume_loop is: "ensure" (in ensure_topic),
              \*   "stream" (in the async for), "sleep" (in asyncio.sleep) or
              \*   "dead" (it raised)
  consecutive_failures,  \* topic -> consume_loop's local counter
  delay,      \* topic -> seconds of the loop's last asyncio.sleep, 0 before any
  call,       \* the DriftQClient._ack_like call in progress: the message, the
              \*   candidate payloads, the payloads posted, and how it ended
  applied,    \* topics whose loop has a set_alias request in flight that Qdrant
              \*   has applied and not yet answered
  h           \* what has happened so far, for stating properties (not program state):
              \*   upserted  collections whose upsert step ran to completion
              \*   ran       steps the attempt in flight has executed
              \*   faulted   a backend request failed in the attempt in flight
              \*   failedAt  the step in which the attempt in flight raised
              \*   moved     the control loop moved the alias during the attempt
              \*             in flight, after its promote if it has promoted
              \*   done      build-topic messages whose handler has returned normally
              \*   again     the attempt in flight handles a build message in done
              \*   fired     run_id -> times fail_mode "once" made should_fail fail
              \*   left      collections of the versions a successful rollback moved
              \*             active away from
              \*   first     the rollback message last handled with success and
              \*             not acked, with history and alias as that handling
              \*             left them
              \*   promoted  runs whose promote step has succeeded
              \*   after     run_id -> runs that promoted since that run last did

vars == <<state, files, markers, hist, colls, alias, buildQ, controlQ,
          bpc, bmsg, bi, cpc, cmsg, chist, ctarget, result, used,
          phase, consecutive_failures, delay, call, applied, h>>

\* consume_loop's own state, per topic, and that of its ack or nack call
loopvars == <<phase, consecutive_failures, delay, call>>

\* what every action but the set_alias ones leaves alone
restvars == <<phase, consecutive_failures, delay, call, applied>>

\* ---------------------------------------------------------------- helpers
Max(S) == CHOOSE x \in S : \A y \in S : y <= x
Range(s) == {s[i] : i \in 1..Len(s)}
RECURSIVE SortedSeq(_)
SortedSeq(S) ==
  IF S = {} THEN <<>>
  ELSE LET m == Max(S) IN Append(SortedSeq(S \ {m}), m)

\* list.index: 0-based position of the first occurrence
IndexOf(s, x) == (CHOOSE i \in 1..Len(s) : s[i] = x /\ \A k \in 1..(i - 1) : s[k] # x) - 1
StepIdx(name) == IndexOf(order, name)

collection_name(index, version) == <<index, version>>
CollNames == {collection_name(i, v) : i \in Indexes, v \in VersionIds}

\* hashlib.sha256(chunk_id)[:16] as an int: a fixed injective map of chunk ids
stable_hash(chunk_id) == 1000 + 37 * chunk_id

\* ------------------------------------------------------------ storage.py
get_history(index) == hist[index]

\* next_version as it would be if it counted the versions
next_version_count(index) == Len(get_history(index).versions) + 1

next_version(index) ==
  LET versions == get_history(index).versions
  IN IF versions = <<>> THEN 1 ELSE Max(Range(versions)) + 1

\* the history file after record_version(index, version), given the file hf
record_version(hf, version) ==
  [hf EXCEPT !.versions = SortedSeq(Range(hf.versions) \cup {version})]

\* the history file after set_active(index, version): the copy read first is
\* the one written last, over what record_version wrote in between
set_active(hf, version) ==
  LET read == hf
      recorded == record_version(hf, version)
      written == [read EXCEPT !.active = version]
  IN written

PrevNone == <<"none">>
PrevRaise == <<"IndexError">>

\* previous_version as it would be if it returned versions[i], not versions[j]
previous_version_unmoved(hf, steps) ==
  IF hf.active = None \/ hf.active \notin Range(hf.versions) THEN PrevNone
  ELSE <<"ok", hf.active>>

\* previous_version: <<"none">>, <<"ok", v>>, or the IndexError of versions[j]
previous_version(hf, steps) ==
  IF hf.active = None THEN PrevNone
  ELSE IF hf.active \notin Range(hf.versions) THEN PrevNone
  ELSE LET i == IndexOf(hf.versions, hf.active)
           j == i - steps
       IN IF j < 0 THEN PrevNone
          ELSE IF j >= Len(hf.versions) THEN PrevRaise
          ELSE <<"ok", hf.versions[j + 1]>>

PendingSteps == [s \in StepNames |-> "PENDING"]

UnknownRun ==
  [status |-> "UNKNOWN", index |-> "demo", version |-> None, fail_step |-> "none",
   fail_mode |-> "never", steps |-> PendingSteps, artifacts |-> {}, errors |-> <<>>]

init_run_state(index, version, fail_step, fail_mode) ==
  [status |-> "QUEUED", index |-> index, version |-> version, fail_step |-> fail_step,
   fail_mode |-> fail_mode, steps |-> PendingSteps, artifacts |-> {}, errors |-> <<>>]

NoHist == [versions |-> <<>>, active |-> None]
NoFiles == [docs |-> NoFile, chunks |-> NoFile, embeds |-> NoFile]

\* history and alias as the handling of rollback message m left them
NoSnap == [msg |-> NoMsg, hist |-> [i \in Indexes |-> NoHist],
           alias |-> [i \in Indexes |-> NoAlias]]
Snap(m) == [msg |-> m, hist |-> hist, alias |-> alias]

\* ------------------------------------------------------------------- Init
Init ==
  /\ state = [r \in RunIds |-> UnknownRun]
  /\ files = [r \in RunIds |-> NoFiles]
  /\ markers = {}
  /\ hist = [i \in Indexes |-> NoHist]
  /\ colls = [c \in CollNames |-> NoFile]
  /\ alias = [i \in Indexes |-> NoAlias]
  /\ buildQ = {}
  /\ controlQ = {}
  /\ bpc = "idle"
  /\ bmsg = NoMsg
  /\ bi = 0
  /\ cpc = "idle"
  /\ cmsg = NoMsg
  /\ chist = NoHist
  /\ ctarget = None
  /\ result = "none"
  /\ used = 0
  /\ phase = [t \in Topics |-> "stream"]
  /\ consecutive_failures = [t \in Topics |-> 0]
  /\ delay = [t \in Topics |-> 0]
  /\ call = NoCall
  /\ applied = {}
  /\ h = [upserted |-> {}, ran |-> {}, faulted |-> FALSE, failedAt |-> NoStep,
          moved |-> FALSE, done |-> {}, again |-> FALSE,
          fired |-> [r \in RunIds |-> 0], left |-> {}, promoted |-> {},
          after |-> [r \in RunIds |-> {}], first |-> NoSnap]

\* n more events fit the bound
Spend(n) ==
  /\ used + n <= MaxEvents
  /\ used' = used + n

\* A backend request answers; ok = FALSE is a fault
Answer(ok) == IF ok THEN UNCHANGED used ELSE Spend(1)

\* ---------------------------------------------------------------- main.py
BuildMsg(run_id, index, version, fail_step, fail_mode) ==
  [type |-> "build", run_id |-> run_id, index |-> index, version |-> version,
   from_step |-> NoStep, fail_step |-> fail_step, fail_mode |-> fail_mode]

ReplayMsg(run_id, st, from_step, fail_step, fail_mode) ==
  [type |-> "replay", run_id |-> run_id, index |-> st.index, version |-> st.version,
   from_step |-> from_step, fail_step |-> fail_step, fail_mode |-> fail_mode]

RollbackMsg(index, steps, to_version) ==
  [type |-> "rollback", index |-> index, steps |-> steps, to_version |-> to_version]

\* uuid4: a run id no run has
FreshRunId == CHOOSE r \in RunIds : state[r].status = "UNKNOWN" /\ \A q \in 1..(r - 1) : state[q].status # "UNKNOWN"

\* the except branch as it would be if its writes were lost
enqueue_failed_swallowed(st) == st

\* main.py:110-119: the run is marked after a failed produce
enqueue_failed(st) ==
  [st EXCEPT !.status = "FAILED", !.errors = Append(st.errors, "enqueue")]

\* POST /demo/build
demo_build(index, fail_step, fail_mode, produced) ==
  /\ \E r \in RunIds : state[r].status = "UNKNOWN"
  /\ Spend(IF produced THEN 1 ELSE 2)
  /\ LET run_id == FreshRunId
         version == next_version(index)
         st == init_run_state(index, version, fail_step, fail_mode)
     IN IF produced
        THEN /\ state' = [state EXCEPT ![run_id] = st]
             /\ buildQ' = buildQ \cup {BuildMsg(run_id, index, version, fail_step, fail_mode)}
        ELSE /\ state' = [state EXCEPT ![run_id] = enqueue_failed(st)]
             /\ UNCHANGED buildQ
  /\ UNCHANGED <<files, markers, hist, colls, alias, controlQ, bpc, bmsg, bi,
                 cpc, cmsg, chist, ctarget, result, h>>
  /\ UNCHANGED restvars

\* POST /demo/replay (a failed produce raises and changes nothing)
demo_replay(run_id, from_step, fail_step, fail_mode) ==
  /\ state[run_id].status # "UNKNOWN"
  /\ Spend(2)
  /\ buildQ' = buildQ \cup {ReplayMsg(run_id, state[run_id], from_step, fail_step, fail_mode)}
  /\ UNCHANGED <<state, files, markers, hist, colls, alias, controlQ, bpc, bmsg, bi,
                 cpc, cmsg, chist, ctarget, result, h>>
  /\ UNCHANGED restvars

\* POST /demo/rollback (RollbackRequest: steps >= 1, to_version None or >= 1)
demo_rollback(index, steps, to_version) ==
  /\ Spend(1)
  /\ controlQ' = controlQ \cup {RollbackMsg(index, steps, to_version)}
  /\ UNCHANGED <<state, files, markers, hist, colls, alias, buildQ, bpc, bmsg, bi,
                 cpc, cmsg, chist, ctarget, result, h>>
  /\ UNCHANGED restvars

\* --------------------------------------------------------------- worker.py
\* The worker is one asyncio process: a loop runs from one await to the next
\* without the other loop running in between.  An action of a loop below is
\* one such stretch; bpc and cpc name the await a loop is suspended in.
\* ("record" is not an await: it exposes promote between set_alias and the
\* history writes, where only a crash can fall.)
BuildAwait == {"idle", "create", "batch", "alias", "search", "ack", "nack"}

\* A message whose value is missing, is not a JSON object or is a string that
\* does not decode to one
Malformed == [type |-> "malformed"]
NoValue == [type |-> "novalue"]

\* DriftQClient.extract_value: the value when it is (or decodes to) a dict,
\* else None
extract_value(msg) == IF msg.type = "malformed" THEN NoValue ELSE msg

\* consume_loop, worker.py:241, and handle_rollback, worker.py:212-214:
\* `extract_value(msg) or {}` hands the handler {} for a malformed message,
\* and the handler's .get defaults read it as a one-step rollback of "demo"
rollback_value(msg) ==
  IF extract_value(msg) = NoValue
  THEN [type |-> "rollback", index |-> "demo", steps |-> 0, to_version |-> None]
  ELSE extract_value(msg)

start(m) == IF m.from_step = NoStep THEN "discover" ELSE m.from_step
start_idx(m) == IF start(m) \in StepNames THEN StepIdx(start(m)) ELSE 0
fail_marker(m) == <<m.run_id, m.fail_step>>
coll(m) == collection_name(m.index, m.version)

\* should_fail as it would be if "once" never wrote its marker file
should_fail_unmarked(fail_step, fail_mode, step, marker_path, mk) ==
  <<fail_step = step /\ fail_mode # "never", mk>>

\* pipeline.should_fail: <<whether to fail, the marker files afterwards>>
should_fail(fail_step, fail_mode, step, marker_path, mk) ==
  IF fail_step # step THEN <<FALSE, mk>>
  ELSE IF fail_mode = "never" THEN <<FALSE, mk>>
  ELSE IF fail_mode = "always" THEN <<TRUE, mk>>
  ELSE IF marker_path \in mk THEN <<FALSE, mk>>
  ELSE <<TRUE, mk \cup {marker_path}>>

\* handle_build.step's except branch (worker.py:83-90); the handler's own
\* except branch then finds the status FAILED already
StepFailed(st, name) ==
  [st EXCEPT !.steps[name] = "FAILED",
             !.errors = Append(st.errors, name),
             !.status = "FAILED"]

\* the except branch as it would be if it left the run's status alone
RunFailed_silent(st) == st

\* handle_build's except branch (worker.py:201-208)
RunFailed(st) ==
  IF st.status # "FAILED"
  THEN [st EXCEPT !.status = "FAILED", !.errors = Append(st.errors, "runtime")]
  ELSE st

\* handle_build.step's success branch (worker.py:78-82)
StepSucceeded(st, name) ==
  [st EXCEPT !.steps[name] = "SUCCEEDED", !.artifacts = st.artifacts \cup {name}]

\* artifact_exists as it would be if it never found the recorded path
artifact_exists_never(st, step_name) == FALSE

\* artifact_exists (worker.py:92-95): run files are never deleted, so the
\* path a recorded artifact names exists
artifact_exists(st, step_name) == step_name \in st.artifacts

\* handle_build, worker.py:45-68.  A context is what the handler has written
\* so far: the run's state.json (st) and files (fl), the marker files (mk),
\* the steps it executed (ran) and whether an exception is propagating.
BuildStart(m) ==
  LET st0 == state[m.run_id]
      st1 == IF st0.status \in {"UNKNOWN", "QUEUED"}
             THEN init_run_state(m.index, m.version, m.fail_step, m.fail_mode)
             ELSE st0
  IN [st |-> [st1 EXCEPT !.status = "RUNNING"], fl |-> files[m.run_id],
      mk |-> markers, ran |-> {}, raised |-> FALSE]

\* pipeline.discover_step: docs.json holds the documents (here: their chunk ids)
discover_step == ChunkIds

\* worker.py:102-105; ok: load_docs finds documents and docs.json is written
BuildDiscover(c, m, ok) ==
  IF c.raised THEN c
  ELSE IF start_idx(m) <= 0 /\ ~artifact_exists(c.st, "discover")
  THEN IF ok
       THEN [c EXCEPT !.st = StepSucceeded(c.st, "discover"),
                      !.fl.docs = File(discover_step),
                      !.ran = c.ran \cup {"discover"}]
       ELSE [c EXCEPT !.st = StepFailed(c.st, "discover"),
                      !.ran = c.ran \cup {"discover"}, !.raised = TRUE]
  ELSE c

\* pipeline.chunk_step: the chunk ids of docs.json, [] when it is missing
chunk_step(fl) == IF fl.docs = NoFile THEN <<>> ELSE SortedSeq(fl.docs[1])

\* the chunk step as it would be if it ran after a failed discover
BuildChunk_continues(c, m, ok) ==
  IF start_idx(m) <= 1 /\ ~artifact_exists(c.st, "chunk")
  THEN [c EXCEPT !.st = StepSucceeded(c.st, "chunk"),
                 !.fl.chunks = File(chunk_step(c.fl)),
                 !.ran = c.ran \cup {"chunk"}]
  ELSE c

\* worker.py:107-110; ok: chunk_step does not raise
BuildChunk(c, m, ok) ==
  IF c.raised THEN c
  ELSE IF start_idx(m) <= 1 /\ ~artifact_exists(c.st, "chunk")
  THEN IF ok
       THEN [c EXCEPT !.st = StepSucceeded(c.st, "chunk"),
                      !.fl.chunks = File(chunk_step(c.fl)),
                      !.ran = c.ran \cup {"chunk"}]
       ELSE [c EXCEPT !.st = StepFailed(c.st, "chunk"),
                      !.ran = c.ran \cup {"chunk"}, !.raised = TRUE]
  ELSE c

\* worker.py:112-113: the injected failure is raised outside step()
BuildInject(c, m) ==
  IF c.raised THEN c
  ELSE LET sf == should_fail(m.fail_step, m.fail_mode, "embed", fail_marker(m), c.mk)
       IN IF sf[1]
          THEN [c EXCEPT !.mk = sf[2], !.st = RunFailed(c.st),
                         !.ran = c.ran \cup {"inject"}, !.raised = TRUE]
          ELSE [c EXCEPT !.mk = sf[2]]

\* pipeline.embed_step: one embedding per chunk of chunks.json, [] when missing
embed_step(fl) == IF fl.chunks = NoFile THEN <<>> ELSE fl.chunks[1]

\* worker.py:115-118; ok: embed_step does not raise
BuildEmbed(c, m, ok) ==
  IF c.raised THEN c
  ELSE IF start_idx(m) <= 2 /\ ~artifact_exists(c.st, "embed")
  THEN IF ok
       THEN [c EXCEPT !.st = StepSucceeded(c.st, "embed"),
                      !.fl.embeds = File(embed_step(c.fl)),
                      !.ran = c.ran \cup {"embed"}]
       ELSE [c EXCEPT !.st = StepFailed(c.st, "embed"),
                      !.ran = c.ran \cup {"embed"}, !.raised = TRUE]
  ELSE c

\* smoketest as it would be if it were skipped whatever the start step
EnterSmoketest_skipped(st, m, ran) ==
  [st |-> [st EXCEPT !.status = "SUCCEEDED"], pc |-> "ack", ran |-> ran]

\* Where the handler suspends next and what it has written by then:
\* worker.py:171-174 (smoketest entered) or 195-199 (skipped)
EnterSmoketest(st, m, ran) ==
  IF start_idx(m) <= 5
  THEN [st |-> [st EXCEPT !.steps["smoketest"] = "RUNNING"], pc |-> "search",
        ran |-> ran \cup {"smoketest"}]
  ELSE [st |-> [st EXCEPT !.status = "SUCCEEDED"], pc |-> "ack", ran |-> ran]

\* worker.py:153-156 (promote entered) or 168-169 (skipped)
EnterPromote(st, m, ran) ==
  IF start_idx(m) <= 4
  THEN [st |-> [st EXCEPT !.steps["promote"] = "RUNNING"], pc |-> "alias",
        ran |-> ran \cup {"promote"}]
  ELSE EnterSmoketest(st, m, ran)

\* worker.py:120-123 (upsert entered) or 150-151 (skipped)
EnterUpsert(st, m, ran) ==
  IF start_idx(m) <= 3
  THEN [st |-> [st EXCEPT !.steps["upsert"] = "RUNNING"], pc |-> "create",
        ran |-> ran \cup {"upsert"}]
  ELSE EnterPromote(st, m, ran)

\* handle_build runs on message m up to its first await (worker.py:45-126);
\* fault names the step function, if any, that raises in this attempt
BuildHandle(m, fault) ==
  /\ Len(state[m.run_id].errors) < MaxErrors
  /\ \E c0 \in {BuildStart(m)} :
     \E c1 \in {BuildDiscover(c0, m, fault # "discover")} :
     \E c2 \in {BuildChunk(c1, m, fault # "chunk")} :
     \E c3 \in {BuildInject(c2, m)} :
     \E c4 \in {BuildEmbed(c3, m, fault # "embed")} :
     \E nx \in {EnterUpsert(c4.st, m, c4.ran)} :
        /\ fault # "none" => /\ c4.raised
                             /\ c4.st.steps[fault] = "FAILED"
                             /\ fault \in c4.ran
        /\ Answer(fault = "none")
        /\ files' = [files EXCEPT ![m.run_id] = c4.fl]
        /\ markers' = c4.mk
        /\ state' = [state EXCEPT ![m.run_id] = IF c4.raised THEN c4.st ELSE nx.st]
        /\ bpc' = IF c4.raised THEN "nack" ELSE nx.pc
        /\ h' = [h EXCEPT !.ran = IF c4.raised THEN c4.ran ELSE nx.ran,
                          !.faulted = fault # "none",
                          !.failedAt = IF fault # "none" THEN fault
                                       ELSE IF "inject" \in c4.ran THEN "embed"
                                       ELSE NoStep,
                          !.again = m.type = "build" /\ m \in h.done,
                          !.fired[m.run_id] =
                             IF "inject" \in c4.ran /\ m.fail_mode = "once" THEN @ + 1 ELSE @]

\* consume_loop, worker.py:240-246, on the build topic: the message's value is
\* decoded and handed to handle_build; handle_build({}) raises KeyError at its
\* first line (worker.py:46), before it has written anything
BuildReceive(m, fault) ==
  /\ bpc = "idle"
  /\ m \in buildQ
  /\ IF extract_value(m) = NoValue
     THEN /\ fault = "none"
          /\ bpc' = "nack"
          /\ UNCHANGED <<state, files, markers, h, used>>
     ELSE BuildHandle(m, fault)
  /\ buildQ' = buildQ \ {m}
  /\ bmsg' = m
  /\ bi' = 0
  /\ UNCHANGED <<hist, colls, alias, controlQ, cpc, cmsg, chist, ctarget, result>>
  /\ phase[BUILD_TOPIC] = "stream"
  /\ UNCHANGED restvars

\* worker.py:130-139: the points of embeddings.json, in order
points == [k \in 1..Len(files[bmsg.run_id].embeds[1]) |->
             stable_hash(files[bmsg.run_id].embeds[1][k])]

\* points[i : i + B] as a set of point ids
Batch(pts, i) == {pts[k] : k \in {n \in 1..Len(pts) : i < n /\ n <= i + B}}

\* qdrant_http.upsert_points: points are keyed by id, a known id is overwritten
upsert_points(c, ids) == [colls EXCEPT ![c] = File(colls[c][1] \cup ids)]

\* qdrant_http.create_collection: 409 (exists) counts as success
create_collection(c) == IF colls[c] = NoFile THEN [colls EXCEPT ![c] = File({})] ELSE colls

\* worker.py:145-156: upsert is marked SUCCEEDED and the handler runs on to
\* its next await
BuildUpserted ==
  /\ LET st == StepSucceeded(state[bmsg.run_id], "upsert")
         nx == EnterPromote(st, bmsg, h.ran)
     IN /\ state' = [state EXCEPT ![bmsg.run_id] = nx.st]
        /\ bpc' = nx.pc
        /\ h' = [h EXCEPT !.upserted = h.upserted \cup {coll(bmsg)}, !.ran = nx.ran]
  /\ bi' = 0

\* the step whose await the build loop is suspended in
StepAt(pc) ==
  CASE pc \in {"create", "batch"} -> "upsert"
    [] pc \in {"alias", "record"} -> "promote"
    [] pc = "search" -> "smoketest"
    [] OTHER -> NoStep

\* the except branches as they would be if consume_loop acked after a raise
BuildRaise_acking(ok) ==
  /\ state' = [state EXCEPT ![bmsg.run_id] = RunFailed(state[bmsg.run_id])]
  /\ bpc' = "ack"
  /\ bi' = 0
  /\ h' = [h EXCEPT !.faulted = @ \/ ~ok, !.failedAt = StepAt(bpc)]

\* the handler's except branch, then consume_loop's (worker.py:201-208, 253)
BuildRaise(ok) ==
  /\ state' = [state EXCEPT ![bmsg.run_id] = RunFailed(state[bmsg.run_id])]
  /\ bpc' = "nack"
  /\ bi' = 0
  /\ h' = [h EXCEPT !.faulted = @ \/ ~ok, !.failedAt = StepAt(bpc)]

\* worker.py:125-143: create_collection answers (ok: 2xx or 409), then
\* embeddings.json is read, which raises when the file is missing
BuildCreate(ok) ==
  /\ bpc = "create"
  /\ Answer(ok)
  /\ IF ~ok
     THEN /\ BuildRaise(ok)
          /\ UNCHANGED colls
     ELSE /\ colls' = create_collection(coll(bmsg))
          /\ IF files[bmsg.run_id].embeds = NoFile
             THEN BuildRaise(ok)
             ELSE IF Len(points) > 0
                  THEN /\ bpc' = "batch"
                       /\ bi' = 0
                       /\ UNCHANGED <<state, h>>
                  ELSE BuildUpserted
  /\ UNCHANGED <<files, markers, hist, alias, buildQ, controlQ, bmsg,
                 cpc, cmsg, chist, ctarget, result>>
  /\ UNCHANGED restvars

\* worker.py:142-143: one upsert_points request answers
BuildBatch(ok) ==
  /\ bpc = "batch"
  /\ Answer(ok)
  /\ IF ok
     THEN /\ colls' = upsert_points(coll(bmsg), Batch(points, bi))
          /\ IF bi + B < Len(points)
             THEN /\ bi' = bi + B
                  /\ bpc' = "batch"
                  /\ UNCHANGED <<state, h>>
             ELSE BuildUpserted
     ELSE /\ BuildRaise(ok)
          /\ UNCHANGED colls
  /\ UNCHANGED <<files, markers, hist, alias, buildQ, controlQ, bmsg,
                 cpc, cmsg, chist, ctarget, result>>
  /\ UNCHANGED restvars

\* qdrant_http.set_alias: Qdrant accepts an alias only onto a collection it has
AliasAccepted(c) == colls[c] # NoFile

\* worker.py:158-159: set_alias answers; a request Qdrant has applied already
\* is answered with success
BuildAlias(ok) ==
  /\ bpc = "alias"
  /\ Answer(ok)
  /\ IF BUILD_TOPIC \in applied
     THEN /\ ok
          /\ bpc' = "record"
          /\ UNCHANGED <<alias, state, bi, h>>
     ELSE IF ok /\ AliasAccepted(coll(bmsg))
     THEN /\ alias' = [alias EXCEPT ![bmsg.index] = coll(bmsg)]
          /\ bpc' = "record"
          /\ UNCHANGED <<state, bi, h>>
     ELSE /\ BuildRaise(ok)
          /\ UNCHANGED alias
  /\ applied' = applied \ {BUILD_TOPIC}
  /\ UNCHANGED <<files, markers, hist, colls, buildQ, controlQ, bmsg,
                 cpc, cmsg, chist, ctarget, result>>
  /\ UNCHANGED loopvars

\* worker.py:160-161: the history file after promote's two writes
Promote(hf, version) == set_active(record_version(hf, version), version)

\* worker.py:160-174: the version is recorded and made active, promote is
\* marked SUCCEEDED and the handler runs on to its next await
BuildRecord ==
  /\ bpc = "record"
  /\ hist' = [hist EXCEPT ![bmsg.index] = Promote(get_history(bmsg.index), bmsg.version)]
  /\ LET st == StepSucceeded(state[bmsg.run_id], "promote")
         nx == EnterSmoketest(st, bmsg, h.ran)
     IN /\ state' = [state EXCEPT ![bmsg.run_id] = nx.st]
        /\ bpc' = nx.pc
        /\ h' = [h EXCEPT !.ran = nx.ran, !.moved = FALSE,
                          !.promoted = @ \cup {bmsg.run_id},
                          !.after = [r \in RunIds |->
                                       IF r = bmsg.run_id THEN {}
                                       ELSE IF r \in h.promoted THEN @[r] \cup {bmsg.run_id}
                                       ELSE @[r]]]
  /\ UNCHANGED <<files, markers, colls, alias, buildQ, controlQ, bmsg, bi,
                 cpc, cmsg, chist, ctarget, result, used>>
  /\ UNCHANGED restvars

\* worker.py:176-194: the canned searches through the alias answer; a search
\* through an alias Qdrant does not have is a 404 (raise_for_status)
BuildSearch(ok) ==
  /\ bpc = "search"
  /\ Answer(ok)
  /\ IF ok /\ alias[bmsg.index] # NoAlias
     THEN /\ state' = [state EXCEPT ![bmsg.run_id] =
                         [StepSucceeded(state[bmsg.run_id], "smoketest")
                            EXCEPT !.status = "SUCCEEDED"]]
          /\ bpc' = "ack"
          /\ UNCHANGED <<bi, h>>
     ELSE BuildRaise(ok)
  /\ UNCHANGED <<files, markers, hist, colls, alias, buildQ, controlQ, bmsg,
                 cpc, cmsg, chist, ctarget, result>>
  /\ UNCHANGED restvars

\* consume_loop, worker.py:250-251: driftq.ack answers; a failed ack raises
\* into the except branch, which nacks
BuildAck(ok) ==
  /\ bpc = "ack"
  /\ Answer(ok)
  /\ IF ok
     THEN /\ bpc' = "idle"
          /\ bmsg' = NoMsg
          /\ h' = [h EXCEPT !.ran = {}, !.faulted = FALSE, !.failedAt = NoStep, !.moved = FALSE,
                    !.again = FALSE]
     ELSE /\ bpc' = "nack"
          /\ h' = [h EXCEPT !.faulted = TRUE, !.done = @ \cup {bmsg}]
          /\ UNCHANGED bmsg
  /\ UNCHANGED <<state, files, markers, hist, colls, alias, buildQ, controlQ, bi,
                 cpc, cmsg, chist, ctarget, result>>
  /\ consecutive_failures' = IF ok THEN [consecutive_failures EXCEPT ![BUILD_TOPIC] = 0]
                             ELSE consecutive_failures
  /\ UNCHANGED <<phase, delay, call, applied>>

\* the nack as it would be if the queue never delivered a nacked message again
BuildNack_dropping ==
  /\ bpc = "nack"
  /\ buildQ' = buildQ
  /\ bpc' = "idle"
  /\ bmsg' = NoMsg
  /\ h' = [h EXCEPT !.ran = {}, !.faulted = FALSE, !.failedAt = NoStep, !.moved = FALSE,
                    !.again = FALSE]
  /\ UNCHANGED <<state, files, markers, hist, colls, alias, controlQ, bi,
                 cpc, cmsg, chist, ctarget, result, used>>
  /\ UNCHANGED restvars

\* the nack as it would be if a handler failure counted as a loop failure
BuildNack_counting ==
  /\ bpc = "nack"
  /\ buildQ' = buildQ \cup {bmsg}
  /\ bpc' = "idle"
  /\ bmsg' = NoMsg
  /\ h' = [h EXCEPT !.ran = {}, !.faulted = FALSE, !.failedAt = NoStep, !.moved = FALSE,
                    !.again = FALSE]
  /\ consecutive_failures' = [consecutive_failures EXCEPT ![BUILD_TOPIC] = @ + 1]
  /\ UNCHANGED <<state, files, markers, hist, colls, alias, controlQ, bi,
                 cpc, cmsg, chist, ctarget, result, used, phase, delay, call, applied>>

\* consume_loop, worker.py:253-281: the message is nacked, or the nack fails
\* and the lease runs out; either way the queue delivers it again
BuildNack ==
  /\ bpc = "nack"
  /\ buildQ' = buildQ \cup {bmsg}
  /\ bpc' = "idle"
  /\ bmsg' = NoMsg
  /\ h' = [h EXCEPT !.ran = {}, !.faulted = FALSE, !.failedAt = NoStep, !.moved = FALSE,
                    !.again = FALSE]
  /\ UNCHANGED <<state, files, markers, hist, colls, alias, controlQ, bi,
                 cpc, cmsg, chist, ctarget, result, used>>
  /\ UNCHANGED restvars

\* handle_rollback, worker.py:212-222: <<"fail", error>>, <<"raise">> (the
\* IndexError of previous_version) or <<"target", to_version>>
ResolveRollback(hf, m) ==
  LET steps == IF m.steps = 0 THEN 1 ELSE m.steps
  IN IF hf.active = None THEN <<"fail", "no active version">>
     ELSE IF m.to_version # None THEN <<"target", m.to_version>>
     ELSE LET pv == previous_version(hf, steps)
          IN IF pv = PrevRaise THEN <<"raise">>
             ELSE IF pv = PrevNone THEN <<"fail", "no previous version available">>
             ELSE <<"target", pv[2]>>

\* consume_stream yields a message of the control topic and handle_rollback
\* runs up to its set_alias request (worker.py:212-224)
RollbackReceive(m) ==
  /\ cpc = "idle"
  /\ bpc \in BuildAwait
  /\ m \in controlQ
  /\ controlQ' = controlQ \ {m}
  /\ cmsg' = m
  /\ LET v == rollback_value(m)
         r == ResolveRollback(get_history(v.index), v)
     IN CASE r[1] = "fail" -> /\ result' = r[2]
                              /\ cpc' = "ack"
                              /\ ctarget' = None
                              /\ chist' = NoHist
          [] r[1] = "raise" -> /\ result' = "raised"
                               /\ cpc' = "nack"
                               /\ ctarget' = None
                               /\ chist' = NoHist
          [] OTHER -> /\ result' = "pending"
                      /\ cpc' = "alias"
                      /\ ctarget' = r[2]
                      /\ chist' = get_history(v.index)
  /\ UNCHANGED <<state, files, markers, hist, colls, alias, buildQ, bpc, bmsg, bi, h, used>>
  /\ phase[CONTROL_TOPIC] = "stream"
  /\ UNCHANGED restvars

\* handle_rollback, worker.py:224-226: set_alias answers; a request Qdrant has
\* applied already is answered with success
RollbackAlias(ok) ==
  /\ Answer(ok)
  /\ cpc = "alias"
  /\ bpc \in BuildAwait
  /\ CONTROL_TOPIC \in applied => ok
  /\ LET index == rollback_value(cmsg).index
     IN IF ok /\ (CONTROL_TOPIC \in applied \/ AliasAccepted(collection_name(index, ctarget)))
        THEN /\ alias' = IF CONTROL_TOPIC \in applied THEN alias
                         ELSE [alias EXCEPT ![index] = collection_name(index, ctarget)]
             /\ hist' = [hist EXCEPT ![index] = set_active(get_history(index), ctarget)]
             /\ result' = "ok"
             /\ cpc' = "ack"
             /\ h' = [h EXCEPT !.left =
                        IF get_history(index).active # ctarget
                        THEN @ \cup {collection_name(index, get_history(index).active)}
                        ELSE @,
                               !.moved = bmsg # NoMsg]
        ELSE /\ result' = "raised"
             /\ cpc' = "nack"
             /\ UNCHANGED <<alias, hist, h>>
  /\ ctarget' = None
  /\ chist' = NoHist
  /\ applied' = applied \ {CONTROL_TOPIC}
  /\ UNCHANGED <<state, files, markers, colls, buildQ, controlQ, bpc, bmsg, bi, cmsg>>
  /\ UNCHANGED loopvars

\* consume_loop, worker.py:250-251 on the control topic
ControlAck(ok) ==
  /\ Answer(ok)
  /\ cpc = "ack"
  /\ bpc \in BuildAwait
  /\ IF ok
     THEN /\ cpc' = "idle"
          /\ cmsg' = NoMsg
          /\ result' = "none"
     ELSE /\ cpc' = "nack"
          /\ UNCHANGED <<cmsg, result>>
  /\ h' = [h EXCEPT !.first = IF ~ok /\ result = "ok" THEN Snap(cmsg) ELSE @]
  /\ UNCHANGED <<state, files, markers, hist, colls, alias, buildQ, controlQ,
                 bpc, bmsg, bi, chist, ctarget>>
  /\ consecutive_failures' = IF ok THEN [consecutive_failures EXCEPT ![CONTROL_TOPIC] = 0]
                             ELSE consecutive_failures
  /\ UNCHANGED <<phase, delay, call, applied>>

\* consume_loop, worker.py:253-281 on the control topic
ControlNack ==
  /\ cpc = "nack"
  /\ bpc \in BuildAwait
  /\ controlQ' = controlQ \cup {cmsg}
  /\ cpc' = "idle"
  /\ cmsg' = NoMsg
  /\ result' = "none"
  /\ UNCHANGED <<state, files, markers, hist, colls, alias, buildQ,
                 bpc, bmsg, bi, chist, ctarget, h, used>>
  /\ UNCHANGED restvars

\* The worker process dies and is restarted: what it held in memory is gone,
\* the leases of the messages it held run out and the queue delivers them again;
\* both loops start over and are consuming again.
Crash ==
  /\ bpc # "idle" \/ cpc # "idle"
  /\ Spend(1)
  /\ buildQ' = IF bmsg = NoMsg THEN buildQ ELSE buildQ \cup {bmsg}
  /\ controlQ' = IF cmsg = NoMsg THEN controlQ ELSE controlQ \cup {cmsg}
  /\ bpc' = "idle"
  /\ cpc' = "idle"
  /\ bmsg' = NoMsg
  /\ cmsg' = NoMsg
  /\ bi' = 0
  /\ ctarget' = None
  /\ result' = "none"
  /\ chist' = NoHist
  /\ h' = [h EXCEPT !.ran = {}, !.faulted = FALSE, !.failedAt = NoStep, !.moved = FALSE,
                    !.again = FALSE,
                    !.done = IF bpc = "ack" THEN @ \cup {bmsg} ELSE @,
                    !.first = IF cpc = "ack" /\ result = "ok" THEN Snap(cmsg) ELSE @]
  /\ UNCHANGED <<state, files, markers, hist, colls, alias, call>>
  /\ applied' = {}
  /\ phase' = [t \in Topics |-> "stream"]
  /\ consecutive_failures' = [t \in Topics |-> 0]
  /\ delay' = [t \in Topics |-> 0]

\* ------------------------------------------------------------ specification
Api ==
  \/ \E i \in Indexes, f \in Faults, produced \in BOOLEAN : demo_build(i, f[1], f[2], produced)
  \/ \E r \in RunIds, s \in StepNames, f \in Faults : demo_replay(r, s, f[1], f[2])
  \/ \E i \in Indexes, n \in 1..MaxSteps : demo_rollback(i, n, None)
  \/ \E i \in Indexes, v \in VersionIds : demo_rollback(i, 1, v)

BuildLoop ==
  \/ \E m \in buildQ, fault \in {"none", "discover", "chunk", "embed"} : BuildReceive(m, fault)
  \/ \E ok \in BOOLEAN : BuildCreate(ok)
  \/ \E ok \in BOOLEAN : BuildBatch(ok)
  \/ \E ok \in BOOLEAN : BuildAlias(ok)
  \/ BuildRecord
  \/ \E ok \in BOOLEAN : BuildSearch(ok)
  \/ \E ok \in BOOLEAN : BuildAck(ok)
  \/ BuildNack

ControlLoop ==
  \/ \E m \in controlQ : RollbackReceive(m)
  \/ \E ok \in BOOLEAN : RollbackAlias(ok)
  \/ \E ok \in BOOLEAN : ControlAck(ok)
  \/ ControlNack

Next == Api \/ BuildLoop \/ ControlLoop \/ Crash

Spec == Init /\ [][Next]_vars

\* The control topic as handle_rollback sees it: the handler decodes steps
\* with int(msg.get("steps") or 1) (worker.py:213) and validates nothing, so a
\* producer that is not demo_rollback can hand it any integer.
WireSteps == (0 - MaxSteps)..MaxSteps

produce_rollback(index, steps) ==
  /\ Spend(1)
  /\ controlQ' = controlQ \cup {RollbackMsg(index, steps, None)}
  /\ UNCHANGED <<state, files, markers, hist, colls, alias, buildQ, bpc, bmsg, bi,
                 cpc, cmsg, chist, ctarget, result, h>>
  /\ UNCHANGED restvars

Wire == \E i \in Indexes, n \in WireSteps : produce_rollback(i, n)

NextWire == Next \/ Wire

SpecWire == Init /\ [][NextWire]_vars

\* ------------------------------------------------------------------ claims
Versions(i) == Range(hist[i].versions)
InFlight(r) == bmsg # NoMsg /\ bmsg.run_id = r
Terminal(st) == st.status \in {"FAILED", "SUCCEEDED"}

\* C1: after any sequence of build, replay and rollback messages the worker
\* has handled, the active version of an index is null or one of its recorded
\* versions.
C1_ActiveInVersions ==
  \A i \in Indexes : hist[i].active = None \/ hist[i].active \in Versions(i)

\* C2: at every point in time the collection the alias of an index points at
\* is one whose upsert step ran to completion.
C2_AliasComplete ==
  \A i \in Indexes : alias[i] # NoAlias => alias[i] \in h.upserted

\* C3: a run's status is SUCCEEDED only as its latest attempt left it: the
\* attempt that writes SUCCEEDED has every step from its start step through
\* smoketest SUCCEEDED, nothing else writes to a SUCCEEDED run, and a new
\* attempt on the run begins by taking the status off SUCCEEDED.
C3_SucceededStepsDone ==
  [][\A r \in RunIds :
       /\ (state'[r].status = "SUCCEEDED" /\ state'[r] # state[r]) =>
             /\ InFlight(r)
             /\ bmsg' = bmsg
             /\ \A s \in StepNames :
                  StepIdx(s) >= start_idx(bmsg) => state'[r].steps[s] = "SUCCEEDED"
       /\ (bpc = "idle" /\ bpc' # "idle" /\ bmsg'.run_id = r) =>
             state'[r].status # "SUCCEEDED"]_vars

\* a replay that started at promote has succeeded over an upsert that never
\* finished
C3_Witness ==
  /\ bpc = "ack"
  /\ bmsg.type = "replay"
  /\ start(bmsg) = "promote"
  /\ state[bmsg.run_id].status = "SUCCEEDED"
  /\ state[bmsg.run_id].steps["upsert"] # "SUCCEEDED"

\* C4: a run whose status is FAILED or SUCCEEDED becomes RUNNING again only
\* when a replay message for it is handled, never when its build message is
\* delivered again.
C4_RunningOnlyByReplay ==
  [][\A r \in RunIds :
       (Terminal(state[r]) /\ state'[r].status = "RUNNING") =>
          (bmsg'.type = "replay" /\ bmsg'.run_id = r)]_vars

\* C5: handling a build message again after its handler has returned
\* normally executes none of discover, chunk and embed, and leaves the points
\* of every collection as they were.
C5_RedeliveryIdempotent ==
  [][/\ h'.again => h'.ran \cap {"discover", "chunk", "embed"} = {}
     /\ h.again => colls' = colls]_vars

\* the second handling of a build message has re-run upsert and returned
C5_Witness ==
  /\ bpc = "ack"
  /\ h.again
  /\ "upsert" \in h.ran
  /\ colls[coll(bmsg)] # NoFile /\ colls[coll(bmsg)][1] # {}

\* the recorded version immediately before v, None when v is the oldest
Preceding(i, v) ==
  LET older == {x \in Versions(i) : x < v}
  IN IF older = {} THEN None ELSE Max(older)

\* C6: a rollback of one step that finds the history as promote left it
\* succeeds with the version recorded immediately before the active one made
\* active and aliased, and the recorded versions unchanged; from versions 1
\* and 2 with 2 active it leaves 1 active, the alias on version 1's collection
\* and versions 1 and 2.
C6_RollbackOneStep ==
  [][(/\ cpc = "alias" /\ result' = "ok"
      /\ cmsg.to_version = None /\ cmsg.steps = 1
      /\ chist = hist[cmsg.index]) =>
       LET i == cmsg.index
           v_prev == Preceding(i, hist[i].active)
       IN /\ hist'[i].active = v_prev
          /\ alias'[i] = collection_name(i, v_prev)
          /\ hist'[i].versions = hist[i].versions
          /\ hist[i] = [versions |-> <<1, 2>>, active |-> 2] =>
               /\ hist'[i] = [versions |-> <<1, 2>>, active |-> 1]
               /\ alias'[i] = collection_name(i, 1)]_vars

\* the two-build scenario after its rollback
C6_Witness ==
  /\ cpc = "ack" /\ result = "ok"
  /\ cmsg.to_version = None /\ cmsg.steps = 1
  /\ hist[cmsg.index] = [versions |-> <<1, 2>>, active |-> 1]
  /\ alias[cmsg.index] = collection_name(cmsg.index, 1)

\* the walk of a relative rollback, as the handler decodes steps, ends outside
\* the version list
WalkLeavesBounds(hf, m) ==
  /\ m.to_version = None
  /\ hf.active \in Range(hf.versions)
  /\ LET n == IF m.steps = 0 THEN 1 ELSE m.steps
         p == IndexOf(hf.versions, hf.active) + 1
     IN (p - n) \notin 1..Len(hf.versions)

\* C7: a rollback on an index without an active version, or a relative
\* rollback whose walk leaves the version list, whatever integer its steps
\* is, returns one of the two structured errors without raising, and leaves
\* history and alias unchanged.
C7_RollbackFailsStructured ==
  [][(/\ cpc = "idle" /\ cpc' # "idle"
      /\ \/ hist[cmsg'.index].active = None
         \/ WalkLeavesBounds(hist[cmsg'.index], cmsg')) =>
       /\ result' \in {"no active version", "no previous version available"}
       /\ hist' = hist
       /\ alias' = alias]_vars

\* C8: a rollback with an explicit to_version succeeds only onto a version
\* the history has recorded, on an index that has an active version.
C8_ExplicitTargetRecorded ==
  [][(cpc = "alias" /\ result' = "ok" /\ cmsg.to_version # None) =>
       /\ cmsg.to_version \in Versions(cmsg.index)
       /\ hist[cmsg.index].active # None]_vars

\* C9: no step of a rollback removes a recorded version; after a successful
\* rollback the version it moved active away from is in versions; and a
\* rollback with to_version = v, where v is a version an earlier rollback moved
\* away from, is not rejected and, when the backend answers it, makes v active
\* again.
C9_RollbackKeepsVersions ==
  [][cpc' # cpc =>
       /\ \A i \in Indexes : Versions(i) \subseteq Range(hist'[i].versions)
       /\ (/\ cpc = "alias" /\ result' = "ok"
           /\ hist'[cmsg.index].active # hist[cmsg.index].active) =>
             hist[cmsg.index].active \in Range(hist'[cmsg.index].versions)
       /\ (/\ cpc = "idle" /\ cmsg'.to_version # None
           /\ collection_name(cmsg'.index, cmsg'.to_version) \in h.left) =>
             cpc' = "alias" /\ ctarget' = cmsg'.to_version
       /\ (/\ cpc = "alias" /\ cpc' # "idle" /\ used' = used
           /\ collection_name(cmsg.index, ctarget) \in h.left) =>
             /\ result' = "ok"
             /\ hist'[cmsg.index].active = ctarget
             /\ alias'[cmsg.index] = collection_name(cmsg.index, ctarget)]_vars

\* C10: fail_mode "once" at embed fails a run once over all its attempts,
\* whatever other runs do; an attempt that gets past embed with it has it
\* behind it; and a replay from embed or an earlier step after it, with no
\* other fault, does not end in failure.
C10_FailOnce ==
  /\ \A r \in RunIds : /\ h.fired[r] <= 1
                       /\ h.fired[r] = 1 <=> <<r, "embed">> \in markers
  /\ (/\ bpc \in {"create", "batch", "alias", "record", "search", "ack"}
      /\ bmsg.fail_step = "embed" /\ bmsg.fail_mode = "once") =>
        h.fired[bmsg.run_id] = 1
  /\ (/\ bpc \in {"ack", "nack"}
      /\ bmsg.type = "replay" /\ start_idx(bmsg) <= StepIdx("embed")
      /\ h.fired[bmsg.run_id] = 1 /\ "inject" \notin h.ran
      /\ bmsg.fail_mode # "always"
      /\ ~h.faulted) =>
        /\ bpc = "ack"
        /\ state[bmsg.run_id].status = "SUCCEEDED"

\* the replay of a run that failed once has succeeded
C10_Witness ==
  /\ bpc = "ack"
  /\ bmsg.type = "replay" /\ start_idx(bmsg) <= StepIdx("embed")
  /\ bmsg.fail_step = "embed" /\ bmsg.fail_mode = "once"
  /\ h.fired[bmsg.run_id] = 1
  /\ state[bmsg.run_id].status = "SUCCEEDED"

\* ---------------------------------------------------------- next_version
\* next_version over every history file the bounds hold: any set of recorded
\* versions, kept sorted as record_version keeps it, with any of them or none
\* active.  demo_build applies it (main.py:83).
Histories ==
  {[versions |-> SortedSeq(S), active |-> a] :
     S \in SUBSET VersionIds, a \in VersionIds \cup {None}}

InitVersions ==
  /\ state = [r \in RunIds |-> UnknownRun]
  /\ files = [r \in RunIds |-> NoFiles]
  /\ markers = {}
  /\ hist \in [Indexes -> {hf \in Histories :
                             hf.active = None \/ hf.active \in Range(hf.versions)}]
  /\ colls = [c \in CollNames |-> NoFile]
  /\ alias = [i \in Indexes |-> NoAlias]
  /\ buildQ = {}
  /\ controlQ = {}
  /\ bpc = "idle"
  /\ bmsg = NoMsg
  /\ bi = 0
  /\ cpc = "idle"
  /\ cmsg = NoMsg
  /\ chist = NoHist
  /\ ctarget = None
  /\ result = "none"
  /\ used = 0
  /\ phase = [t \in Topics |-> "stream"]
  /\ consecutive_failures = [t \in Topics |-> 0]
  /\ delay = [t \in Topics |-> 0]
  /\ call = NoCall
  /\ applied = {}
  /\ h = [upserted |-> {}, ran |-> {}, faulted |-> FALSE, failedAt |-> NoStep,
          moved |-> FALSE, done |-> {}, again |-> FALSE,
          fired |-> [r \in RunIds |-> 0], left |-> {}, promoted |-> {},
          after |-> [r \in RunIds |-> {}], first |-> NoSnap]

NextVersions ==
  \E i \in Indexes, f \in Faults, produced \in BOOLEAN : demo_build(i, f[1], f[2], produced)

SpecVersions == InitVersions /\ [][NextVersions]_vars

\* C11: the version demo_build takes from next_version is 1 when the index has
\* no recorded version, and otherwise the successor of the greatest recorded
\* version.
C11_NextVersion ==
  \A r \in RunIds :
    state[r].status # "UNKNOWN" =>
      LET n == state[r].version
          recorded == Versions(state[r].index)
      IN /\ recorded = {} => n = 1
         /\ recorded # {} => /\ n - 1 \in recorded
                             /\ \A v \in recorded : v < n

\* a run has been given version 4 over the recorded versions 1 and 3
C11_Witness ==
  \E r \in RunIds :
    /\ state[r].status # "UNKNOWN"
    /\ hist[state[r].index].versions = <<1, 3>>
    /\ state[r].version = 4

\* ------------------------------------------------------------ failed steps
\* C12: whenever a pipeline step fails (discover, chunk, embed including the
\* injected embed failure, upsert, promote or smoketest), once the handler has
\* raised that step's status is FAILED, the last entry of the run's error list
\* names that step, and the run's status is FAILED.
C12_FailureRecorded ==
  bpc = "nack" /\ h.failedAt # NoStep =>
    LET st == state[bmsg.run_id]
    IN /\ st.status = "FAILED"
       /\ st.steps[h.failedAt] = "FAILED"
       /\ st.errors # <<>>
       /\ st.errors[Len(st.errors)] = h.failedAt

\* C13: when a step fails in an attempt, no later step of the pipeline is
\* started in that attempt (the steps the attempt entered are none after the
\* failed one, and the nack that ends it writes nothing); in particular no
\* step of the build loop in an attempt that has not entered promote, so every
\* step of an attempt that fails at or before upsert, changes the alias or the
\* index history.
BuildLoopStep == bpc' # bpc \/ bi' # bi \/ bmsg' # bmsg

C13_FailureAborts ==
  [][/\ bpc' = "nack" /\ h'.failedAt # NoStep =>
          \A s \in h'.ran \ {"inject"} : StepIdx(s) <= StepIdx(h'.failedAt)
     /\ BuildLoopStep /\ "promote" \notin h'.ran =>
          alias' = alias /\ hist' = hist
     /\ bpc = "nack" /\ BuildLoopStep =>
          /\ bpc' = "idle"
          /\ UNCHANGED <<state, files, markers, hist, colls, alias>>]_vars

C13_Witness ==
  /\ bpc = "nack"
  /\ h.failedAt = "upsert"
  /\ h.ran = {"upsert"}
  /\ hist[bmsg.index].active = 1
  /\ bmsg.version = 2
  /\ alias[bmsg.index] = collection_name(bmsg.index, 1)

\* ----------------------------------------------------------------- promote
\* C14: promote performs its effects in this order: the version is added to
\* versions, then made active, then the alias is pointed at the version's
\* collection (so when promote's set_alias is answered the version is already
\* recorded and active); and when the promote step has succeeded the version
\* is in versions, is active, and the alias targets collection(index, version).
C14_PromoteOrder ==
  [][/\ bpc = "alias" /\ bpc' = "record" =>
          /\ bmsg.version \in Versions(bmsg.index)
          /\ hist[bmsg.index].active = bmsg.version
     /\ bpc = "record" /\ bpc' \in {"search", "ack"} =>
          /\ bmsg.version \in Range(hist'[bmsg.index].versions)
          /\ hist'[bmsg.index].active = bmsg.version
          /\ alias'[bmsg.index] = coll(bmsg)
          /\ state'[bmsg.run_id].steps["promote"] = "SUCCEEDED"]_vars

\* C15: if smoketest fails after promote succeeded in the same attempt, the
\* run ends FAILED while the promotion stays in effect: the failing step and
\* the nack after it change neither history, alias nor collections, and unless
\* a rollback was handled since the promote, the version is in versions and
\* active and the alias targets the new collection.
C15_SmoketestFailureKeepsPromotion ==
  [][/\ bpc = "search" /\ bpc' = "nack" =>
          /\ state'[bmsg.run_id].status = "FAILED"
          /\ UNCHANGED <<hist, alias, colls>>
     /\ bpc' = "nack" /\ h'.failedAt = "smoketest" /\ "promote" \in h'.ran /\ ~h'.moved =>
          /\ state'[bmsg'.run_id].status = "FAILED"
          /\ hist'[bmsg'.index].active = bmsg'.version
          /\ bmsg'.version \in Range(hist'[bmsg'.index].versions)
          /\ alias'[bmsg'.index] = coll(bmsg')
     /\ bpc = "nack" /\ h.failedAt = "smoketest" /\ bpc' = "idle" =>
          /\ state'[bmsg.run_id].status = "FAILED"
          /\ UNCHANGED <<hist, alias, colls>>]_vars

C15_Witness ==
  /\ bpc = "nack"
  /\ h.failedAt = "smoketest"
  /\ "promote" \in h.ran
  /\ ~h.moved
  /\ state[bmsg.run_id].status = "FAILED"
  /\ state[bmsg.run_id].steps["promote"] = "SUCCEEDED"
  /\ hist[bmsg.index].active = bmsg.version
  /\ alias[bmsg.index] = coll(bmsg)

Crashed == (bpc # "idle" \/ cpc # "idle") /\ bpc' = "idle" /\ cpc' = "idle" /\ used' = used + 1

\* C16: for every message a consume loop receives: when the handler returns
\* normally an ack is attempted, when it raises a nack is attempted and no
\* ack; an answered ack ends the delivery with the message gone and no nack,
\* a failed ack is followed by a nack; after the nack attempt, failed or not,
\* the loop is ready for the next message and the message is on the topic
\* again.  So no delivery is both acked and nacked, and none is acked after
\* its handler raised.
C16_AckOrNack ==
  [][Crashed \/
     /\ bpc \notin {"idle", "ack", "nack"} /\ BuildLoopStep =>
          /\ h'.failedAt # NoStep <=> bpc' = "nack"
          /\ bpc' # "idle"
          /\ bmsg' = bmsg
     /\ bpc = "idle" /\ BuildLoopStep =>
          /\ bmsg' \in buildQ
          /\ h'.failedAt # NoStep <=> bpc' = "nack"
          /\ bpc' # "idle"
     /\ bpc' = "ack" => h'.failedAt = NoStep
     /\ bpc = "ack" /\ BuildLoopStep =>
          /\ buildQ' = buildQ
          /\ \/ bpc' = "idle" /\ bmsg' = NoMsg /\ used' = used
             \/ bpc' = "nack" /\ bmsg' = bmsg /\ used' = used + 1
     /\ bpc = "nack" /\ BuildLoopStep =>
          /\ bpc' = "idle"
          /\ bmsg' = NoMsg
          /\ buildQ' = buildQ \cup {bmsg}
     /\ cpc \notin {"idle", "ack", "nack"} /\ cpc' # cpc =>
          /\ result' = "raised" <=> cpc' = "nack"
          /\ result' # "raised" <=> cpc' = "ack"
          /\ cmsg' = cmsg
     /\ cpc = "idle" /\ cpc' # cpc =>
          /\ cmsg' \in controlQ
          /\ result' = "raised" <=> cpc' = "nack"
          /\ result' # "raised" <=> cpc' = "ack" \/ cpc' = "alias"
     /\ cpc = "ack" /\ cpc' # cpc =>
          /\ controlQ' = controlQ
          /\ \/ cpc' = "idle" /\ cmsg' = NoMsg /\ used' = used
             \/ cpc' = "nack" /\ cmsg' = cmsg /\ used' = used + 1
     /\ cpc = "nack" /\ cpc' # cpc =>
          /\ cpc' = "idle"
          /\ cmsg' = NoMsg
          /\ controlQ' = controlQ \cup {cmsg}]_vars

C16_Witness ==
  /\ bpc = "nack"
  /\ h.failedAt # NoStep
  /\ bmsg \notin buildQ
  /\ cpc = "ack"
  /\ result = "ok"

\* ------------------------------------------------------- malformed payloads
\* The topics as consume_loop sees them: a producer that is not the API can
\* put a message on either topic whose value extract_value does not decode.
produce_malformed(topic) ==
  /\ Spend(1)
  /\ buildQ' = IF topic = BUILD_TOPIC THEN buildQ \cup {Malformed} ELSE buildQ
  /\ controlQ' = IF topic = CONTROL_TOPIC THEN controlQ \cup {Malformed} ELSE controlQ
  /\ UNCHANGED <<state, files, markers, hist, colls, alias, bpc, bmsg, bi,
                 cpc, cmsg, chist, ctarget, result, h>>
  /\ UNCHANGED restvars

WireMalformed == \E topic \in {BUILD_TOPIC, CONTROL_TOPIC} : produce_malformed(topic)

NextMalformed == Next \/ WireMalformed

SpecMalformed == Init /\ [][NextMalformed]_vars

\* C17: a message whose payload is malformed is nacked on either topic (the
\* loop that receives it goes to its nack, and from there puts the message
\* back), and no step of a loop holding it changes a run state, the index
\* history or the alias.
C17_MalformedNacked ==
  [][/\ bpc = "idle" /\ bmsg' = Malformed =>
          bpc' = "nack" /\ UNCHANGED <<state, hist, alias>>
     /\ bmsg = Malformed /\ BuildLoopStep =>
          bpc' = "idle" /\ Malformed \in buildQ' /\ UNCHANGED <<state, hist, alias>>
     /\ cpc = "idle" /\ cmsg' = Malformed =>
          cpc' = "nack" /\ UNCHANGED <<state, hist, alias>>
     /\ cmsg = Malformed /\ cpc' # cpc =>
          cpc' = "idle" /\ Malformed \in controlQ' /\ UNCHANGED <<state, hist, alias>>]_vars

\* ------------------------------------------------- consume_loop: transport
\* worker.py:287: the loop raises when consecutive_failures reaches this
FailureCeiling == 10

Pc(t) == IF t = BUILD_TOPIC THEN bpc ELSE cpc

\* the worker has just started: both loops are in their ensure_topic call
InitLoop ==
  /\ state = [r \in RunIds |-> UnknownRun]
  /\ files = [r \in RunIds |-> NoFiles]
  /\ markers = {}
  /\ hist = [i \in Indexes |-> NoHist]
  /\ colls = [c \in CollNames |-> NoFile]
  /\ alias = [i \in Indexes |-> NoAlias]
  /\ buildQ = {}
  /\ controlQ = {}
  /\ bpc = "idle"
  /\ bmsg = NoMsg
  /\ bi = 0
  /\ cpc = "idle"
  /\ cmsg = NoMsg
  /\ chist = NoHist
  /\ ctarget = None
  /\ result = "none"
  /\ used = 0
  /\ phase = [t \in Topics |-> "ensure"]
  /\ consecutive_failures = [t \in Topics |-> 0]
  /\ delay = [t \in Topics |-> 0]
  /\ call = NoCall
  /\ applied = {}
  /\ h = [upserted |-> {}, ran |-> {}, faulted |-> FALSE, failedAt |-> NoStep,
          moved |-> FALSE, done |-> {}, again |-> FALSE,
          fired |-> [r \in RunIds |-> 0], left |-> {}, promoted |-> {},
          after |-> [r \in RunIds |-> {}], first |-> NoSnap]

\* worker.py:233: ensure_topic answers; it is called before the loop's try,
\* so when it raises (driftq_client.py:51-90) consume_loop raises
ensure_topic(t, ok) ==
  /\ phase[t] = "ensure"
  /\ phase' = [phase EXCEPT ![t] = IF ok THEN "stream" ELSE "dead"]
  /\ UNCHANGED <<state, files, markers, hist, colls, alias, buildQ, controlQ,
                 bpc, bmsg, bi, cpc, cmsg, chist, ctarget, result, used,
                 consecutive_failures, delay, call, applied, h>>

\* worker.py:240, 283-289: consume_stream raises (the connection fails or the
\* stream breaks) while the loop waits for a message
consume_stream_raises(t) ==
  /\ phase[t] = "stream"
  /\ Pc(t) = "idle"
  /\ LET n == consecutive_failures[t] + 1
     IN /\ consecutive_failures' = [consecutive_failures EXCEPT ![t] = n]
        /\ IF n >= FailureCeiling
           THEN /\ phase' = [phase EXCEPT ![t] = "dead"]
                /\ UNCHANGED delay
           ELSE /\ phase' = [phase EXCEPT ![t] = "sleep"]
                /\ delay' = [delay EXCEPT ![t] = 1]
  /\ UNCHANGED <<state, files, markers, hist, colls, alias, buildQ, controlQ,
                 bpc, bmsg, bi, cpc, cmsg, chist, ctarget, result, used, call, applied, h>>

\* worker.py:289, 237-240: asyncio.sleep returns and the loop connects again
sleep_returns(t) ==
  /\ phase[t] = "sleep"
  /\ phase' = [phase EXCEPT ![t] = "stream"]
  /\ UNCHANGED <<state, files, markers, hist, colls, alias, buildQ, controlQ,
                 bpc, bmsg, bi, cpc, cmsg, chist, ctarget, result, used,
                 consecutive_failures, delay, call, applied, h>>

Transport ==
  \/ \E t \in Topics, ok \in BOOLEAN : ensure_topic(t, ok)
  \/ \E t \in Topics : consume_stream_raises(t)
  \/ \E t \in Topics : sleep_returns(t)

\* The worker from its start with transport faults, on empty stores, with
\* rollback requests as the traffic whose acks reset the counter
NextLoop ==
  \/ Transport
  \/ \E i \in Indexes, n \in 1..MaxSteps : demo_rollback(i, n, None)
  \/ \E m \in controlQ : RollbackReceive(m)
  \/ \E ok \in BOOLEAN : ControlAck(ok)
  \/ ControlNack

SpecLoop == InitLoop /\ [][NextLoop]_vars

\* C18: a consume loop has terminated if and only if its consecutive-failure
\* counter has reached the ceiling (10): no single transport fault, the
\* failure of the initial ensure_topic call included, terminates it.
C18_TerminatesOnlyAtCeiling ==
  \A t \in Topics : phase[t] = "dead" <=> consecutive_failures[t] >= FailureCeiling

\* C19: while a loop waits after a transport failure, its delay is that of a
\* capped exponential backoff: for some ceiling above the first delay, 1 after
\* the first consecutive failure, doubled with each further one, and never
\* above the ceiling.
C19_Backoff ==
  \A t \in Topics :
    phase[t] = "sleep" =>
      \E cap \in 2..(2 ^ FailureCeiling) :
        LET d == 2 ^ (consecutive_failures[t] - 1)
        IN delay[t] = IF d < cap THEN d ELSE cap

\* -------------------------------------------------------------- start step
\* C21: in an attempt with start step s that runs to its end, every step
\* strictly before s is skipped and every step at or after s is executed by
\* the attempt: an existing artifact makes the attempt skip a step only when
\* the step is before s.
C21_StartStep ==
  [][bpc # "ack" /\ bpc' = "ack" =>
       \A s \in StepNames :
         s \in h'.ran <=> StepIdx(s) >= start_idx(bmsg')]_vars

\* C22: an attempt whose start step is after embed (from_step upsert, promote
\* or smoketest) is never failed by the injected embed failure and never
\* writes the fail-once marker.
C22_InjectionOnlyWithEmbed ==
  [][bpc = "idle" /\ bmsg' # NoMsg /\ start_idx(bmsg') > StepIdx("embed") =>
       /\ "inject" \notin h'.ran
       /\ markers' = markers]_vars

\* ------------------------------------------- handler faults and the loop
\* The build loop with both kinds of fault: builds whose handler may raise,
\* and a build topic whose stream may break between messages.
NextFaults ==
  \/ \E i \in Indexes, f \in Faults, produced \in BOOLEAN : demo_build(i, f[1], f[2], produced)
  \/ BuildLoop
  \/ Crash
  \/ consume_stream_raises(BUILD_TOPIC)
  \/ sleep_returns(BUILD_TOPIC)

SpecFaults == Init /\ [][NextFaults]_vars

\* C23: a pipeline step fault or a handler exception never terminates the
\* consume loop and never increments its consecutive-failure counter: every
\* step of the build loop in which the handler raises, and every nack after
\* it, is taken by a loop that is consuming and leaves it consuming with its
\* counter unchanged, whatever the counter is.
C23_HandlerFaultsNotCounted ==
  [][BuildLoopStep /\ ~Crashed /\ (bpc' = "nack" \/ bpc = "nack") =>
       /\ phase[BUILD_TOPIC] = "stream"
       /\ phase'[BUILD_TOPIC] = "stream"
       /\ consecutive_failures'[BUILD_TOPIC] = consecutive_failures[BUILD_TOPIC]]_vars

C23_Witness ==
  /\ bpc = "idle"
  /\ phase[BUILD_TOPIC] = "stream"
  /\ consecutive_failures[BUILD_TOPIC] = FailureCeiling - 1
  /\ \E r \in RunIds :
       /\ Len(state[r].errors) = MaxErrors
       /\ state[r].fail_mode = "always"
       /\ state[r].status = "FAILED"

\* ------------------------------------------------- DriftQClient._ack_like
\* What a delivered message carries of its identity, after the lookups of
\* driftq_client.py:210-232: a lease id (absent, empty or present), a
\* partition and an offset (absent or present)
Deliveries == [lease_id : {"absent", "", "l1"}, partition : {"absent", "p0"},
               offset : {"absent", "o7"}]

\* HTTP statuses the backend answers with
Statuses == {200, 201, 204, 400, 401, 404, 409, 422, 500, 502, 503}

is_ok(status_code) == 200 <= status_code /\ status_code < 300

\* driftq_client.py:234-251: the candidate payloads in the order they are tried
ack_payloads(msg) ==
  (IF msg.lease_id \notin {"absent", ""}
   THEN <<[shape |-> "lease_id", lease_id |-> msg.lease_id],
          [shape |-> "lease", lease |-> msg.lease_id]>>
   ELSE <<>>)
  \o (IF msg.partition # "absent" /\ msg.offset # "absent"
      THEN <<[shape |-> "offset", partition |-> msg.partition, offset |-> msg.offset]>>
      ELSE <<>>)

\* driftq_client.py:208-254: the call up to its first request; without a
\* payload it raises before any request
ack_like_start(msg) ==
  LET ps == ack_payloads(msg)
  IN [msg |-> msg, payloads |-> ps, sent |-> <<>>, last |-> None,
      outcome |-> IF Len(ps) = 0 THEN "raised" ELSE "posting"]

\* the loop body as it would be if every client error moved on to the next shape
ack_like_post_any4xx(c, status_code) ==
  LET sent == Append(c.sent, c.payloads[Len(c.sent) + 1])
  IN [c EXCEPT !.sent = sent,
               !.last = status_code,
               !.outcome = IF is_ok(status_code) THEN "returned"
                           ELSE IF 400 <= status_code /\ status_code < 500
                                   /\ Len(sent) < Len(c.payloads)
                           THEN "posting"
                           ELSE "raised"]

\* driftq_client.py:256-271: one turn of the loop over the payloads
ack_like_post(c, status_code) ==
  LET sent == Append(c.sent, c.payloads[Len(c.sent) + 1])
  IN [c EXCEPT !.sent = sent,
               !.last = status_code,
               !.outcome = IF is_ok(status_code) THEN "returned"
                           ELSE IF status_code \in {400, 422} /\ Len(sent) < Len(c.payloads)
                           THEN "posting"
                           ELSE "raised"]

\* an ack or nack call is entered with any delivered message
InitAck ==
  /\ state = [r \in RunIds |-> UnknownRun]
  /\ files = [r \in RunIds |-> NoFiles]
  /\ markers = {}
  /\ hist = [i \in Indexes |-> NoHist]
  /\ colls = [c \in CollNames |-> NoFile]
  /\ alias = [i \in Indexes |-> NoAlias]
  /\ buildQ = {}
  /\ controlQ = {}
  /\ bpc = "idle"
  /\ bmsg = NoMsg
  /\ bi = 0
  /\ cpc = "idle"
  /\ cmsg = NoMsg
  /\ chist = NoHist
  /\ ctarget = None
  /\ result = "none"
  /\ used = 0
  /\ phase = [t \in Topics |-> "stream"]
  /\ consecutive_failures = [t \in Topics |-> 0]
  /\ delay = [t \in Topics |-> 0]
  /\ call \in {ack_like_start(msg) : msg \in Deliveries}
  /\ applied = {}
  /\ h = [upserted |-> {}, ran |-> {}, faulted |-> FALSE, failedAt |-> NoStep,
          moved |-> FALSE, done |-> {}, again |-> FALSE,
          fired |-> [r \in RunIds |-> 0], left |-> {}, promoted |-> {},
          after |-> [r \in RunIds |-> {}], first |-> NoSnap]

\* the backend answers the request with status_code
post(status_code) ==
  /\ call.outcome = "posting"
  /\ call' = ack_like_post(call, status_code)
  /\ UNCHANGED <<state, files, markers, hist, colls, alias, buildQ, controlQ,
                 bpc, bmsg, bi, cpc, cmsg, chist, ctarget, result, used,
                 phase, consecutive_failures, delay, applied, h>>

NextAck == \E status_code \in Statuses : post(status_code)

SpecAck == InitAck /\ [][NextAck]_vars

\* the request carries the identity of the message
CarriesIdentity(payload, msg) ==
  CASE payload.shape = "lease_id" -> payload.lease_id = msg.lease_id
    [] payload.shape = "lease" -> payload.lease = msg.lease_id
    [] OTHER -> payload.partition = msg.partition /\ payload.offset = msg.offset

\* every request of the call: made while the call is undecided, with the next
\* candidate in order, which carries the identity of the message
NextShapeInOrder ==
  LET n == Len(call.sent) + 1
  IN /\ call.outcome = "posting"
     /\ Len(call'.sent) = n
     /\ call'.sent[n] = call.payloads[n]
     /\ CarriesIdentity(call'.sent[n], call.msg)
     /\ \A k \in 1..(n - 1) : call'.sent[k] = call.sent[k] /\ call.sent[k].shape # "offset"

C25_DistinctVersions ==
  \A r1, r2 \in RunIds :
    (/\ r1 < r2
     /\ state[r1].status # "UNKNOWN"
     /\ state[r2].status # "UNKNOWN"
     /\ state[r1].index = state[r2].index) =>
      state[r1].version < state[r2].version

\* ------------------------------------------------ promote against rollback
\* the collection the set_alias request of topic t's loop names
AliasTarget(t) ==
  IF t = BUILD_TOPIC THEN coll(bmsg)
  ELSE collection_name(rollback_value(cmsg).index, ctarget)

AliasIndex(t) == IF t = BUILD_TOPIC THEN bmsg.index ELSE rollback_value(cmsg).index

\* qdrant_http.set_alias, qdrant_http.py:55-61: Qdrant applies the request of
\* topic t's loop; its answer has not reached the worker yet, and the other
\* loop runs on meanwhile
set_alias_applied(t) ==
  /\ Pc(t) = "alias"
  /\ t \notin applied
  /\ bpc \in BuildAwait
  /\ AliasAccepted(AliasTarget(t))
  /\ alias' = [alias EXCEPT ![AliasIndex(t)] = AliasTarget(t)]
  /\ applied' = applied \cup {t}
  /\ UNCHANGED <<state, files, markers, hist, colls, buildQ, controlQ,
                 bpc, bmsg, bi, cpc, cmsg, chist, ctarget, result, used,
                 phase, consecutive_failures, delay, call, h>>

\* Both loops at work with no death of the worker, and answers that reach the
\* worker some time after Qdrant has acted on the request
NextRace ==
  \/ Api
  \/ BuildLoop
  \/ ControlLoop
  \/ \E t \in Topics : set_alias_applied(t)

SpecRace == Init /\ [][NextRace]_vars

\* C26: under every interleaving of a build's promote with a rollback on the
\* same index, once both handlers have finished (neither loop is between its
\* set_alias request and its write of active), the alias targets the
\* collection of the active version.
C26_AliasFollowsActive ==
  \A i \in Indexes :
    (/\ bpc \notin {"alias", "record"}
     /\ cpc # "alias"
     /\ hist[i].active # None) =>
      alias[i] = collection_name(i, hist[i].active)

\* the active version of m's index is another version, promoted by another
\* run after m's run was promoted
PromotedLater(m) ==
  \E r \in h.after[m.run_id] :
    /\ state[r].index = m.index
    /\ state[r].version = hist[m.index].active
    /\ state[r].version # m.version

\* C27: handling a build-topic message (a redelivery or a replay) of a run
\* whose promote step already succeeded never moves the index's active version
\* or alias away from a version that another run promoted later.
C27_NoDemotionByRedelivery ==
  [][(/\ BuildLoopStep
      /\ bmsg # NoMsg
      /\ bmsg.run_id \in h.promoted
      /\ PromotedLater(bmsg)) =>
       /\ hist'[bmsg.index].active = hist[bmsg.index].active
       /\ alias'[bmsg.index] = alias[bmsg.index]]_vars

\* ------------------------------------------------- rollbacks delivered twice
\* Histories that builds and rollbacks leave behind: versions 1..n recorded,
\* any of them active
BuiltHistories ==
  {[versions |-> [k \in 1..n |-> k], active |-> a] : n \in VersionIds, a \in VersionIds} \cap
  {hf \in Histories : hf.active \in Range(hf.versions)}

\* the worker on an index that has been built up to three times: every
\* recorded version has its collection, complete, and the alias is on the
\* active one
InitRollback ==
  /\ state = [r \in RunIds |-> UnknownRun]
  /\ files = [r \in RunIds |-> NoFiles]
  /\ markers = {}
  /\ hist \in [Indexes -> BuiltHistories]
  /\ colls = [c \in CollNames |->
                IF c[2] \in Range(hist[c[1]].versions)
                THEN File({stable_hash(k) : k \in ChunkIds})
                ELSE NoFile]
  /\ alias = [i \in Indexes |-> collection_name(i, hist[i].active)]
  /\ buildQ = {}
  /\ controlQ = {}
  /\ bpc = "idle"
  /\ bmsg = NoMsg
  /\ bi = 0
  /\ cpc = "idle"
  /\ cmsg = NoMsg
  /\ chist = NoHist
  /\ ctarget = None
  /\ result = "none"
  /\ used = 0
  /\ phase = [t \in Topics |-> "stream"]
  /\ consecutive_failures = [t \in Topics |-> 0]
  /\ delay = [t \in Topics |-> 0]
  /\ call = NoCall
  /\ applied = {}
  /\ h = [upserted |-> {c \in CollNames : colls[c] # NoFile}, ran |-> {},
          faulted |-> FALSE, failedAt |-> NoStep,
          moved |-> FALSE, done |-> {}, again |-> FALSE,
          fired |-> [r \in RunIds |-> 0], left |-> {}, promoted |-> {},
          after |-> [r \in RunIds |-> {}], first |-> NoSnap]

NextRollback ==
  \/ \E i \in Indexes, n \in 1..MaxSteps : demo_rollback(i, n, None)
  \/ \E i \in Indexes, v \in VersionIds : demo_rollback(i, 1, v)
  \/ ControlLoop
  \/ Crash

SpecRollback == InitRollback /\ [][NextRollback]_vars

\* C28: handling the same rollback message a second time, after its handler
\* succeeded and its ack failed (or the worker died before the ack), with
\* history and alias still as the first handling left them, leaves history
\* and alias as they are, for relative and for explicit rollbacks.
C28_RollbackRedelivered ==
  [][(/\ cpc = "alias"
      /\ cpc' = "ack"
      /\ cmsg = h.first.msg
      /\ hist = h.first.hist
      /\ alias = h.first.alias) =>
       /\ hist' = hist
       /\ alias' = alias]_vars

\* ----------------------------------------------------------- succeeded runs
\* C29: for every run whose persisted status is SUCCEEDED, the run's version
\* is one of the recorded versions of its index and its upsert and promote
\* steps have status SUCCEEDED.
C29_SucceededIsPromoted ==
  \A r \in RunIds :
    state[r].status = "SUCCEEDED" =>
      /\ state[r].version \in Versions(state[r].index)
      /\ state[r].steps["upsert"] = "SUCCEEDED"
      /\ state[r].steps["promote"] = "SUCCEEDED"

\* ---------------------------------------------------------------- liveness
\* Builds handled with backends that accept every request, step functions
\* that do not raise, and no death of the worker
LiveStep ==
  \/ BuildCreate(TRUE)
  \/ BuildBatch(TRUE)
  \/ BuildAlias(TRUE)
  \/ BuildRecord
  \/ BuildSearch(TRUE)
  \/ BuildAck(TRUE)
  \/ BuildNack

\* the queue delivers run r's build message to the build loop
Deliver(r) == \E m \in buildQ : m.run_id = r /\ BuildReceive(m, "none")

NextLive ==
  \/ \E i \in Indexes, f \in Faults : demo_build(i, f[1], f[2], TRUE)
  \/ \E r \in RunIds : Deliver(r)
  \/ LiveStep

\* every request is answered (the loop does not stay in an await), and the
\* queue delivers again every message it holds, nacked ones included
SpecLive ==
  /\ Init
  /\ [][NextLive]_vars
  /\ WF_vars(LiveStep)
  /\ \A r \in RunIds : SF_vars(Deliver(r))

\* the injection fails every delivery of run r's build message
AlwaysFails(r) == state[r].fail_step = "embed" /\ state[r].fail_mode = "always"

\* run r's build message has been acked
Acked(r) == state[r].status # "UNKNOWN" /\ ~InFlight(r) /\ \A m \in buildQ : m.run_id # r

\* C30: with backends that accept every request and a queue that redelivers
\* every nacked message, a build message with fail_mode never or once is
\* eventually acked with its run SUCCEEDED, its version recorded and active
\* (a build of index demo handled on an empty history: versions = {1},
\* active = 1); a build message with fail_step embed and fail_mode always is
\* never acked and its handler never reaches the ack.
C30_EventuallySucceeded ==
  /\ \A r \in RunIds :
       (state[r].status = "QUEUED" /\ ~AlwaysFails(r)) ~>
         (/\ Acked(r)
          /\ state[r].status = "SUCCEEDED"
          /\ state[r].version \in Versions(state[r].index)
          /\ hist[state[r].index].active = state[r].version)
  /\ \A r \in RunIds :
       (InFlight(r) /\ bpc # "nack" /\ hist["demo"] = NoHist) ~>
         (Acked(r) /\ hist["demo"] = [versions |-> <<1>>, active |-> 1])
  /\ [](\A r \in RunIds :
          (state[r].status # "UNKNOWN" /\ AlwaysFails(r)) =>
            /\ ~Acked(r)
            /\ state[r].status # "SUCCEEDED"
            /\ InFlight(r) => bpc = "nack")

C30_Witness ==
  \E r \in RunIds :
    /\ state[r].fail_step = "embed"
    /\ state[r].fail_mode = "once"
    /\ h.fired[r] = 1
    /\ Acked(r)
    /\ state[r].status = "SUCCEEDED"
    /\ hist[state[r].index].active = state[r].version
====
